---- MODULE Spec2Model ----
(***************************************************************************)
(* GBRegOD: sliding-window, regression-based outlier detector for          *)
(* univariate time series (tods/detection_algorithm/core/GBRegOD.py).      *)
(*                                                                         *)
(* One detector instance is modelled: its constructor parameters, the      *)
(* attributes fit() creates on it, and the outcome of the last call.       *)
(* Samples are integers (the __main__ data is kept in tenths), indices are *)
(* 0-based as in the source, sequences are 1-based as in TLA+.             *)
(* Contamination is a percentage, so 0.2 is 20 and (0, 0.5) is 1..49.      *)
(***************************************************************************)
EXTENDS Integers, Sequences, FiniteSets

VARIABLES
    constructed,       \* an instance exists (the constructor returned)
    window_size,       \* self.window_size
    step_size,         \* self.step_size
    contamination,     \* self.contamination, in percent
    attrs,             \* names of the fitted attributes that exist (hasattr)
    left_inds_,        \* self.left_inds_
    right_inds_,       \* self.right_inds_
    valid_len_,        \* self.valid_len_
    gbr_,              \* self.gbr_
    decision_scores_,  \* self.decision_scores_
    threshold_,        \* self.threshold_
    labels_,           \* self.labels_
    call,              \* the last call: operation, input, outcome, returned arrays
    ever_fitted        \* history: some fit() on this instance returned normally

params == <<constructed, window_size, step_size, contamination>>
fitted == <<attrs, left_inds_, right_inds_, valid_len_, gbr_,
            decision_scores_, threshold_, labels_>>
vars == <<constructed, window_size, step_size, contamination,
          attrs, left_inds_, right_inds_, valid_len_, gbr_,
          decision_scores_, threshold_, labels_, call, ever_fitted>>

(***************************************************************************)
(* Bounds of the model                                                     *)
(***************************************************************************)
MaxN == 6          \* longest enumerated input sequence
MaxW == 3          \* window_size is drawn from 0..MaxW
MaxS == 2          \* step_size is drawn from 0..MaxS

\* Below, inside and above the documented range (0, 0.5), in percent.
Contaminations == {0, 20, 40, 60}

\* X_train and X_test of the module's demo, in tenths.
X_train == <<30, 40, 80, 160, 180, 130, 220, 360, 590, 1280, 620, 670, 780, 1000>>
X_test == <<30, 40, 86, 134, 225, 170, 192, 361, 1270, -230, 592>>

\* A two-valued signal, whose scores tie.
Square == <<0, 1, 1, 0>>

\* The first n samples of a signal, repeated cyclically past its end.
Prefix(sig, n) == [i \in 1..n |-> sig[((i - 1) % Len(sig)) + 1]]

Signals == {X_train, Square}

\* An input is a 2D one-column numeric array (wf) or something malformed.
\* The arrays are the two demo arrays and every prefix, up to MaxN samples,
\* of the signals.
Arrays == {Prefix(sig, n) : sig \in Signals, n \in 0..MaxN} \cup {X_train, X_test}

Inputs == {[wf |-> TRUE, rows |-> s] : s \in Arrays}
          \cup {[wf |-> FALSE, rows |-> <<>>]}

(***************************************************************************)
(* Helpers                                                                 *)
(***************************************************************************)
Abs(x) == IF x < 0 THEN -x ELSE x

RECURSIVE SumSeq(_)
SumSeq(s) == IF s = <<>> THEN 0 ELSE Head(s) + SumSeq(Tail(s))

\* floor(a / b) for b > 0 and any integer a
FloorDiv(a, b) == a \div b

Zeros(n) == [i \in 1..n |-> 0]

\* The element of a one-element set (binds a value computed once).
TheOnly(S) == CHOOSE r \in S : TRUE

NoCall == [op |-> "none", outcome |-> "none", X |-> [wf |-> FALSE, rows |-> <<>>],
           raw |-> 0, reads |-> <<>>, scores |-> <<>>, labels |-> <<>>,
           left |-> <<>>, right |-> <<>>]

(***************************************************************************)
(* sklearn.utils.check_array: a 2D numeric array with at least one row.    *)
(***************************************************************************)
check_array(X) == X.wf /\ Len(X.rows) >= 1

(***************************************************************************)
(* sklearn.utils.validation.check_is_fitted(self, names): every named      *)
(* attribute exists on the instance.                                       *)
(***************************************************************************)
check_is_fitted(names) == names \subseteq attrs

(***************************************************************************)
(* CollectiveBaseDetector.__init__: validates contamination.               *)
(***************************************************************************)
ContaminationValid(c) == 0 < c /\ c < 50

(***************************************************************************)
(* utility.get_sub_matrices: slide a window of W samples at stride S from  *)
(* index 0; every window lies inside the sequence.                         *)
(***************************************************************************)
RECURSIVE Slide(_, _, _, _)
Slide(rows, W, S, i) ==
    IF i + W > Len(rows) THEN <<>>
    ELSE <<[sub |-> SubSeq(rows, i + 1, i + W), left |-> i, right |-> i + W]>>
         \o Slide(rows, W, S, i + S)

get_sub_matrices(X, W, S) ==
    IF ~check_array(X) \/ W < 1 \/ S < 1 \/ Len(X.rows) < W
    THEN [ok |-> FALSE, sub |-> <<>>, left |-> <<>>, right |-> <<>>]
    ELSE LET ws == Slide(X.rows, W, S, 0)
         IN [ok |-> TRUE,
             sub |-> [j \in 1..Len(ws) |-> ws[j].sub],
             left |-> [j \in 1..Len(ws) |-> ws[j].left],
             right |-> [j \in 1..Len(ws) |-> ws[j].right]]

\* Mutants of the trim: none at all (a), and the first one removed (a[1:]).
TrimNone(s) == s

TrimFirst(s) == SubSeq(s, 2, Len(s))

(***************************************************************************)
(* "remove the last one": a[:-1]                                           *)
(***************************************************************************)
TrimLast(s) == SubSeq(s, 1, Len(s) - 1)

\* Mutant of the target index: the sample one stride further.
TargetIndexNextStride(i, S, W) == (i + 1) * S + W

(***************************************************************************)
(* The index read for the target of window i (0-based):                    *)
(* X[i * self.step_size + self.window_size]                                *)
(***************************************************************************)
TargetIndex(i, S, W) == i * S + W

TargetReads(n, S, W) == [j \in 1..n |-> TargetIndex(j - 1, S, W)]

\* Every read index addresses a row of X (neither past the end nor wrapped).
ReadsInBounds(reads, rows) ==
    \A j \in 1..Len(reads) : reads[j] >= 0 /\ reads[j] < Len(rows)

y_buf(reads, rows) == [j \in 1..Len(reads) |-> rows[reads[j] + 1]]

(***************************************************************************)
(* GradientBoostingRegressor, abstracted.  A constructed regressor is      *)
(* unfitted; fit() learns one function of a window, fixed from then on.    *)
(* Two learned functions stand for the ensemble: the mean of the training  *)
(* targets (the ensemble's initial estimator) and the window's last sample.*)
(***************************************************************************)
GBRKinds == {"mean", "last"}

GBRUnfitted == [estimators |-> FALSE, kind |-> "mean", init |-> 0]

GBRFit(sub, y, kind) ==
    [estimators |-> TRUE, kind |-> kind, init |-> FloorDiv(SumSeq(y), Len(y))]

GBRPredictRow(gbr, row) == IF gbr.kind = "mean" THEN gbr.init ELSE row[Len(row)]

GBRPredict(gbr, sub) == [j \in 1..Len(sub) |-> GBRPredictRow(gbr, sub[j])]

\* Mutant of the score: the signed residual.
SignedResidual(y, p) == [j \in 1..Len(y) |-> y[j] - p[j]]

(***************************************************************************)
(* np.absolute(y_buf.ravel() - self.gbr_.predict(sub_matrices).ravel())    *)
(***************************************************************************)
AbsResidual(y, p) == [j \in 1..Len(y) |-> Abs(y[j] - p[j])]

(***************************************************************************)
(* CollectiveBaseDetector._process_decision_scores: threshold_ is the      *)
(* (1 - contamination) quantile of the scores by full sort, labels_ are    *)
(* the scores strictly above it.                                           *)
(***************************************************************************)
RECURSIVE Insert(_, _)
Insert(x, s) == IF s = <<>> THEN <<x>>
                ELSE IF x <= Head(s) THEN <<x>> \o s
                ELSE <<Head(s)>> \o Insert(x, Tail(s))

RECURSIVE SortAsc(_)
SortAsc(s) == IF s = <<>> THEN <<>> ELSE Insert(Head(s), SortAsc(Tail(s)))

NOutliers(n, c) == FloorDiv(n * c, 100)

Threshold(scores, c) ==
    SortAsc(scores)[Len(scores) - NOutliers(Len(scores), c)]

\* Mutant of the thresholding: a score equal to the threshold is an outlier.
process_decision_scores_inclusive(scores, c) ==
    LET t == Threshold(scores, c)
    IN [threshold |-> t,
        labels |-> [j \in 1..Len(scores) |-> IF scores[j] >= t THEN 1 ELSE 0]]

process_decision_scores(scores, c) ==
    LET t == Threshold(scores, c)
    IN [threshold |-> t,
        labels |-> [j \in 1..Len(scores) |-> IF scores[j] > t THEN 1 ELSE 0]]

CountAbove(scores, t) == Cardinality({j \in 1..Len(scores) : scores[j] > t})

(***************************************************************************)
(* Initial state: no instance yet.                                         *)
(***************************************************************************)
Init ==
    /\ constructed = FALSE
    /\ window_size = 0
    /\ step_size = 0
    /\ contamination = 0
    /\ attrs = {}
    /\ left_inds_ = <<>>
    /\ right_inds_ = <<>>
    /\ valid_len_ = 0
    /\ gbr_ = GBRUnfitted
    /\ decision_scores_ = <<>>
    /\ threshold_ = 0
    /\ labels_ = <<>>
    /\ call = NoCall
    /\ ever_fitted = FALSE

(***************************************************************************)
(* GBRegOD.__init__(window_size, step_size, contamination)                 *)
(***************************************************************************)
GBRegOD_init(w, s, c) ==
    /\ ~constructed
    /\ IF ContaminationValid(c)
       THEN /\ constructed' = TRUE
            /\ contamination' = c
            /\ window_size' = w
            /\ step_size' = s
            /\ call' = [NoCall EXCEPT !.op = "__init__", !.outcome = "ok"]
       ELSE /\ UNCHANGED params
            /\ call' = [NoCall EXCEPT !.op = "__init__", !.outcome = "ValueError"]
    /\ UNCHANGED <<fitted, ever_fitted>>

(***************************************************************************)
(* GBRegOD.fit(X).  stage is how far the body got:                         *)
(*   0 check_array raised            1 get_sub_matrices raised             *)
(*   2 the y_buf loop raised         3 gbr_.fit raised (no sample)         *)
(*   4 returned self                                                       *)
(***************************************************************************)
FitStage(X, sm, n, reads) ==
    IF ~check_array(X) THEN 0
    ELSE IF ~sm.ok THEN 1
    ELSE IF ~ReadsInBounds(reads, X.rows) THEN 2
    ELSE IF n = 0 THEN 3
    ELSE 4

FitOutcome(stage) ==
    CASE stage = 0 -> "InvalidInputError"
      [] stage = 1 -> "InvalidInputError"
      [] stage = 2 -> "IndexError"
      [] stage = 3 -> "ValueError"
      [] OTHER -> "ok"

fit(X, kind) ==
    /\ constructed
    /\ \E sm \in {get_sub_matrices(X, window_size, step_size)} :
       \E sub \in {TrimLast(sm.sub)}, left \in {TrimLast(sm.left)},
          right \in {TrimLast(sm.right)} :
       \E reads \in {TargetReads(Len(sub), step_size, window_size)} :
       \E stage \in {FitStage(X, sm, Len(sub), reads)} :
       \E y \in {IF stage = 4 THEN y_buf(reads, X.rows) ELSE <<>>} :
       \E gbr \in {IF stage = 4 THEN GBRFit(sub, y, kind) ELSE GBRUnfitted} :
       \E scores \in {IF stage = 4 THEN AbsResidual(y, GBRPredict(gbr, sub)) ELSE <<>>} :
       \E pds \in {IF stage = 4 THEN process_decision_scores(scores, contamination)
                   ELSE [threshold |-> 0, labels |-> <<>>]} :
          /\ left_inds_' = IF stage >= 2 THEN left ELSE left_inds_
          /\ right_inds_' = IF stage >= 2 THEN right ELSE right_inds_
          /\ valid_len_' = IF stage >= 2 THEN Len(sub) ELSE valid_len_
          /\ gbr_' = IF stage >= 3 THEN gbr ELSE gbr_
          /\ decision_scores_' = IF stage = 4 THEN scores ELSE decision_scores_
          /\ threshold_' = IF stage = 4 THEN pds.threshold ELSE threshold_
          /\ labels_' = IF stage = 4 THEN pds.labels ELSE labels_
          /\ attrs' = attrs
                \cup (IF stage >= 2 THEN {"left_inds_", "right_inds_", "valid_len_"} ELSE {})
                \cup (IF stage >= 3 THEN {"gbr_"} ELSE {})
                \cup (IF stage = 4 THEN {"decision_scores_", "threshold_", "labels_"} ELSE {})
          /\ ever_fitted' = (ever_fitted \/ stage = 4)
          /\ call' = [op |-> "fit", outcome |-> FitOutcome(stage), X |-> X,
                      raw |-> Len(sm.sub),
                      reads |-> IF stage >= 2 THEN reads ELSE <<>>,
                      scores |-> scores,
                      labels |-> <<>>, left |-> <<>>, right |-> <<>>]
    /\ UNCHANGED params

(***************************************************************************)
(* The body of GBRegOD.decision_function(X) as a value: the outcome and    *)
(* the three returned arrays.                                              *)
(***************************************************************************)
DecisionFunctionOutcome(sm, n, reads, rows) ==
    IF ~check_is_fitted({"gbr_"}) THEN "NotFittedError"
    ELSE IF ~sm.ok THEN "InvalidInputError"
    ELSE IF ~ReadsInBounds(reads, rows) THEN "IndexError"
    ELSE IF ~gbr_.estimators THEN "NotFittedError"
    ELSE IF n = 0 THEN "ValueError"
    ELSE "ok"

DecisionFunctionReturn(X, sm, sub, left, right, reads, outcome) ==
    [outcome |-> outcome,
     raw |-> IF check_is_fitted({"gbr_"}) /\ sm.ok THEN Len(sm.sub) ELSE 0,
     reads |-> IF check_is_fitted({"gbr_"}) /\ sm.ok THEN reads ELSE <<>>,
     scores |-> IF outcome = "ok"
                THEN AbsResidual(y_buf(reads, X.rows), GBRPredict(gbr_, sub))
                ELSE <<>>,
     left |-> IF outcome = "ok" THEN left ELSE <<>>,
     right |-> IF outcome = "ok" THEN right ELSE <<>>]

DecisionFunctionResult(X) ==
    TheOnly({
      TheOnly({
        TheOnly({
          DecisionFunctionReturn(X, sm, t.sub, t.left, t.right, reads,
              DecisionFunctionOutcome(sm, Len(t.sub), reads, X.rows))
          : reads \in {TargetReads(Len(t.sub), step_size, window_size)} })
        : t \in {[sub |-> TrimLast(sm.sub), left |-> TrimLast(sm.left),
                  right |-> TrimLast(sm.right)]} })
      : sm \in {get_sub_matrices(X, window_size, step_size)} })

\* Mutant of decision_function: the index arrays are kept on the instance.
decision_function_keeps_inds(X) ==
    /\ constructed
    /\ \E r \in {DecisionFunctionResult(X)} :
          /\ call' = [op |-> "decision_function", outcome |-> r.outcome, X |-> X,
                      raw |-> r.raw, reads |-> r.reads, scores |-> r.scores,
                      labels |-> <<>>, left |-> r.left, right |-> r.right]
          /\ left_inds_' = IF r.outcome = "ok" THEN r.left ELSE left_inds_
          /\ right_inds_' = IF r.outcome = "ok" THEN r.right ELSE right_inds_
    /\ UNCHANGED <<params, attrs, valid_len_, gbr_, decision_scores_, threshold_,
                   labels_, ever_fitted>>

(***************************************************************************)
(* GBRegOD.decision_function(X): assigns no attribute.                     *)
(***************************************************************************)
decision_function(X) ==
    /\ constructed
    /\ \E r \in {DecisionFunctionResult(X)} :
          call' = [op |-> "decision_function", outcome |-> r.outcome, X |-> X,
                   raw |-> r.raw, reads |-> r.reads, scores |-> r.scores,
                   labels |-> <<>>, left |-> r.left, right |-> r.right]
    /\ UNCHANGED <<params, fitted, ever_fitted>>

(***************************************************************************)
(* (pred_score > self.threshold_).astype('int')                            *)
(***************************************************************************)
Binarize(scores, t) == [j \in 1..Len(scores) |-> IF scores[j] > t THEN 1 ELSE 0]

(***************************************************************************)
(* GBRegOD.predict(X): decision_function, left-padded with window_size     *)
(* zeros, scores binarized against threshold_.                             *)
(***************************************************************************)
Pad(W, s) == Zeros(W) \o s

predict(X) ==
    /\ constructed
    /\ IF ~check_is_fitted({"decision_scores_", "threshold_", "labels_"})
       THEN call' = [NoCall EXCEPT !.op = "predict", !.outcome = "NotFittedError",
                                   !.X = X]
       ELSE \E r \in {DecisionFunctionResult(X)} :
            \E pred_score \in {Pad(window_size, r.scores)} :
               call' = IF r.outcome # "ok"
                       THEN [NoCall EXCEPT !.op = "predict", !.outcome = r.outcome,
                                           !.X = X, !.raw = r.raw, !.reads = r.reads]
                       ELSE [op |-> "predict", outcome |-> "ok", X |-> X,
                             raw |-> r.raw, reads |-> r.reads,
                             scores |-> pred_score,
                             labels |-> Binarize(pred_score, threshold_),
                             left |-> Pad(window_size, r.left),
                             right |-> Pad(window_size, r.right)]
    /\ UNCHANGED <<params, fitted, ever_fitted>>

Next ==
    \/ \E w \in 0..MaxW, s \in 0..MaxS, c \in Contaminations : GBRegOD_init(w, s, c)
    \/ \E X \in Inputs, kind \in GBRKinds : fit(X, kind)
    \/ \E X \in Inputs : decision_function(X)
    \/ \E X \in Inputs : predict(X)

Spec == Init /\ [][Next]_vars

(***************************************************************************)
(* Properties                                                              *)
(***************************************************************************)
N == Len(call.X.rows)

ValidParams == window_size >= 1 /\ step_size >= 1

\* floor((N - W) / S), the number of windows kept after the trim
Retained == FloorDiv(N - window_size, step_size)

Distinct(s) == \A i, j \in 1..Len(s) : i # j => s[i] # s[j]

\* C1: on an instance on which no fit has completed successfully, every
\* predict or decision_function call fails with a not-fitted error and
\* returns no labels or scores.
C1_NotFittedBeforeFit ==
    (~ever_fitted /\ call.op \in {"predict", "decision_function"})
    => (call.outcome = "NotFittedError" /\ call.scores = <<>> /\ call.labels = <<>>)

\* C2: with window_size >= 1, step_size >= 1 and N >= window_size, the three
\* arrays predict returns have length exactly N.
C2_PredictLengthIsN ==
    (call.op = "predict" /\ call.outcome = "ok" /\ ValidParams /\ N >= window_size)
    => (Len(call.labels) = N /\ Len(call.left) = N /\ Len(call.right) = N)

C4_InferenceFrame ==
    [][call'.op \in {"predict", "decision_function"} =>
          /\ UNCHANGED fitted
          /\ (call.op = call'.op /\ call.X = call'.X) => call' = call]_vars

\* C4 witness: decision_function returned scores on a fitted instance.
C4_Witness ==
    /\ ever_fitted /\ {"gbr_", "decision_scores_", "threshold_", "labels_"} \subseteq attrs
    /\ call.op = "decision_function" /\ call.outcome = "ok"
    /\ Len(call.scores) >= 2
    /\ Len(call.left) # Len(left_inds_)

\* C5: a fit that raises leaves every attribute of the instance as it was.
C5_FitAtomic ==
    [][(call'.op = "fit" /\ call'.outcome # "ok") => UNCHANGED fitted]_vars

\* C6: no instance exists with window_size < 1, step_size < 1 or a
\* contamination outside (0, 0.5).
C6_ConstructionValidated ==
    constructed =>
       (window_size >= 1 /\ step_size >= 1 /\ ContaminationValid(contamination))

\* C7 as stated: after a successful fit the number of training scores
\* strictly above threshold_ equals floor(c * n), and labels_ marks exactly
\* the scores strictly above threshold_.
C7_ThresholdCountExact ==
    "labels_" \in attrs =>
       /\ CountAbove(decision_scores_, threshold_)
             = NOutliers(Len(decision_scores_), contamination)
       /\ Len(labels_) = Len(decision_scores_)
       /\ \A i \in 1..Len(labels_) :
             labels_[i] = (IF decision_scores_[i] > threshold_ THEN 1 ELSE 0)

\* C7 amended: the number of training scores strictly above threshold_ is at
\* most floor(c * n), equal to it when the scores are pairwise distinct, and
\* labels_ marks exactly the scores strictly above threshold_.
C7_ThresholdCountAtMost ==
    "labels_" \in attrs =>
       /\ CountAbove(decision_scores_, threshold_)
             <= NOutliers(Len(decision_scores_), contamination)
       /\ Distinct(decision_scores_) =>
             CountAbove(decision_scores_, threshold_)
                = NOutliers(Len(decision_scores_), contamination)
       /\ Len(labels_) = Len(decision_scores_)
       /\ \A i \in 1..Len(labels_) :
             labels_[i] = (IF decision_scores_[i] > threshold_ THEN 1 ELSE 0)

\* C7 witness: a fit with distinct scores, some of them outliers, and a
\* score equal to the threshold labelled 0.
C7_Witness ==
    /\ call.op = "fit" /\ call.outcome = "ok"
    /\ Distinct(decision_scores_)
    /\ NOutliers(Len(decision_scores_), contamination) >= 2
    /\ \E i \in 1..Len(labels_) : labels_[i] = 1
    /\ \E i \in 1..Len(labels_) : decision_scores_[i] = threshold_ /\ labels_[i] = 0

\* C8: every target read of fit and decision_function is at index
\* i*step_size + window_size = left_inds[i] + window_size, inside the
\* sequence.
C8_TargetReadsInBounds ==
    (ValidParams /\ call.op \in {"fit", "decision_function", "predict"}) =>
       /\ call.outcome # "IndexError"
       /\ \A j \in 1..Len(call.reads) :
             /\ call.reads[j] = (j - 1) * step_size + window_size
             /\ call.reads[j] >= 0
             /\ call.reads[j] < N
       /\ (call.op = "fit" /\ call.reads # <<>>) =>
             /\ Len(left_inds_) = Len(call.reads)
             /\ \A j \in 1..Len(call.reads) :
                   call.reads[j] = left_inds_[j] + window_size
       /\ (call.op = "decision_function" /\ call.outcome = "ok") =>
             /\ Len(call.left) = Len(call.reads)
             /\ \A j \in 1..Len(call.reads) :
                   call.reads[j] = call.left[j] + window_size

\* C8 witness: a fit on N - W a multiple of the stride 2, where the window
\* the trim removes is the one whose target would be at index N.
C8_Witness ==
    /\ call.op = "fit" /\ call.outcome = "ok"
    /\ step_size = 2
    /\ Len(call.reads) >= 2
    /\ call.reads[Len(call.reads)] = N - 2

\* C9: every kept window i (0-based) has left index i*step_size and right
\* index i*step_size + window_size, in fit's attributes and in
\* decision_function's result; W=3, S=1, N=14 gives 0..10 and 3..13.
C9_WindowIndices ==
    ValidParams =>
       /\ "left_inds_" \in attrs =>
             /\ Len(left_inds_) = Len(right_inds_)
             /\ \A i \in 1..Len(left_inds_) :
                   /\ left_inds_[i] = (i - 1) * step_size
                   /\ right_inds_[i] = (i - 1) * step_size + window_size
                   /\ left_inds_[i] + window_size = right_inds_[i]
       /\ (call.op = "decision_function" /\ call.outcome = "ok") =>
             /\ Len(call.left) = Len(call.right)
             /\ \A i \in 1..Len(call.left) :
                   /\ call.left[i] = (i - 1) * step_size
                   /\ call.right[i] = (i - 1) * step_size + window_size
       /\ (call.op = "fit" /\ call.outcome = "ok"
             /\ window_size = 3 /\ step_size = 1 /\ N = 14) =>
             /\ left_inds_ = [i \in 1..11 |-> i - 1]
             /\ right_inds_ = [i \in 1..11 |-> i + 2]

\* C9 witness: decision_function, at a stride of 2, on an instance fitted
\* on other data returns at least three windows.
C9_Witness ==
    /\ call.op = "decision_function" /\ call.outcome = "ok"
    /\ step_size = 2 /\ Len(call.left) >= 3
    /\ Len(left_inds_) >= 1 /\ Len(left_inds_) # Len(call.left)
    /\ call.left[3] = 4 /\ call.right[3] = 4 + window_size

\* C10: the first window_size entries of the three arrays predict returns
\* are 0, and every later label is 1 exactly when its score is strictly
\* above threshold_.
C10_PredictPadding ==
    (call.op = "predict" /\ call.outcome = "ok" /\ ValidParams /\ N >= window_size) =>
       /\ Len(call.labels) >= window_size
       /\ Len(call.left) = Len(call.labels)
       /\ Len(call.right) = Len(call.labels)
       /\ \A j \in 1..window_size :
             call.labels[j] = 0 /\ call.left[j] = 0 /\ call.right[j] = 0
       /\ \A j \in (window_size + 1)..Len(call.labels) :
             call.labels[j] = (IF call.scores[j] > threshold_ THEN 1 ELSE 0)

\* C10 witness: the demo predict, W=3 on 11 samples, with both labels after
\* the padding.
C10_Witness ==
    /\ call.op = "predict" /\ call.outcome = "ok"
    /\ window_size = 3 /\ N = 11 /\ Len(call.labels) = 11
    /\ \E j \in 4..11 : call.labels[j] = 1
    /\ \E j \in 4..11 : call.labels[j] = 0

====
